---- MODULE Spec2Model ----
(***************************************************************************)
(* Model of main_poc.py: the Kerberos precheck, the once-per-process JVM   *)
(* start, the JDBC connect, the cockroach_connection() context manager,    *)
(* run_reconciliation_query() and the __main__ block.                      *)
(*                                                                         *)
(* Every thread of the process runs calls one after the other.  A call is  *)
(* a bare get_connection(), a `with cockroach_connection()` block with an  *)
(* arbitrary body, or run_reconciliation_query().  The calls into jpype,   *)
(* jaydebeapi and the file system are external: each one's outcome         *)
(* (returns / raises) is chosen nondeterministically.                      *)
(***************************************************************************)
EXTENDS Naturals, Sequences, FiniteSets

\* ----------------------------------------------------------------- bounds
NumThreads == 2
MaxTasks == 3

Threads == 1..NumThreads
MainThread == CHOOSE t \in Threads : \A u \in Threads : t <= u

\* ------------------------------------------------------------------ state
VARIABLES
    ticket,      \* os.path.exists(ticket_cache): the Kerberos ticket cache file
    jvmStarted,  \* jpype.isJVMStarted()
    startCalls,  \* number of jpype.startJVM invocations made so far
    startFails,  \* how many of them failed to bring the JVM up
    tasks,       \* number of calls begun so far (bounded by MaxTasks)
    stdout,      \* what print() / traceback.print_exc() wrote
    mainStage,   \* position of the __main__ block ("off" when imported)
    exitStatus,  \* "running", or the exit status of the process
    pc,          \* per thread: position in the code
    task,        \* per thread: the call being run
    ticketOk,    \* per thread: what ensure_kerberos_ticket() returned
    conn,        \* per thread: local `conn` of cockroach_connection / result
    cur,         \* per thread: the cursor of the body
    exc,         \* per thread: the exception now propagating ("none")
    firstExc,    \* per thread: the first exception raised in this call
    closeCalls,  \* per thread: conn.close() invocations on this call's handle
    trace,       \* per thread: log lines and external calls of this call
    outcome      \* per thread: what the caller of the call observed

globals == <<ticket, jvmStarted, startCalls, startFails, tasks>>
mainVars == <<stdout, mainStage, exitStatus>>
locals == <<pc, task, ticketOk, conn, cur, exc, firstExc, closeCalls, trace, outcome>>
vars == <<globals, mainVars, locals>>

\* Exceptions the modelled code can see.  All derive from Exception except
\* "BodyInterrupt" (KeyboardInterrupt / SystemExit raised in a with-body).
Exceptions == {"NoTicket", "StartError", "ConnectError", "DriverError",
               "BodyError", "BodyInterrupt", "CloseError"}

IsException(e) == e \in Exceptions \ {"BodyInterrupt"}

\* `except Exception as e:` of cockroach_connection()
\* (faulty variant: a clause that matches nothing, so nothing is logged)
CatchesNothing(e) == FALSE
Catches(e) == IsException(e)

\* ensure_kerberos_ticket(): `if not os.path.exists(ticket_cache): ... return False`
\* (faulty variant: the existence test dropped)
TicketAlwaysOk(exists) == TRUE
TicketCheckResult(exists) == exists

\* get_connection(): `if not ensure_kerberos_ticket(): raise Exception(...)`
\* (faulty variant: the result ignored, the precheck only advisory)
TicketAdvisory(ok) == FALSE
RaisesOnMissingTicket(ok) == ~ok

\* get_connection(): `if not jpype.isJVMStarted():`
\* (faulty variant: the flag not consulted)
AlwaysStart(started) == TRUE
NeedsStart(started) == ~started

\* cockroach_connection(): `if conn:` in the finally block
\* (faulty variants: the close left out; the close not guarded)
NeverClose(c) == FALSE
AlwaysClose(c) == TRUE
ShouldClose(c) == c # "None"

BoolStr(b) == IF b THEN "true" ELSE "false"

Count(s, e) == Cardinality({i \in DOMAIN s : s[i] = e})
Has(s, e) == \E i \in DOMAIN s : s[i] = e
Before(s, a, b) == \E i, j \in DOMAIN s : i < j /\ s[i] = a /\ s[j] = b

\* --------------------------------------------------------------- initial
InitLocals ==
    /\ task = [t \in Threads |-> "none"]
    /\ ticketOk = [t \in Threads |-> "unset"]
    /\ conn = [t \in Threads |-> "None"]
    /\ cur = [t \in Threads |-> "none"]
    /\ exc = [t \in Threads |-> "none"]
    /\ firstExc = [t \in Threads |-> "none"]
    /\ closeCalls = [t \in Threads |-> 0]
    /\ trace = [t \in Threads |-> << >>]
    /\ outcome = [t \in Threads |-> "none"]

InitGlobals ==
    /\ ticket \in BOOLEAN
    /\ jvmStarted = FALSE
    /\ startCalls = 0
    /\ startFails = 0
    /\ tasks = 0
    /\ stdout = << >>
    /\ exitStatus = "running"

Init ==
    /\ InitGlobals
    /\ InitLocals
    /\ mainStage = "off"
    /\ pc = [t \in Threads |-> "idle"]

\* Entering a call: fresh locals, control at the first line of get_connection.
Enter(t, k) ==
    /\ task' = [task EXCEPT ![t] = k]
    /\ pc' = [pc EXCEPT ![t] = "precheck"]
    /\ ticketOk' = [ticketOk EXCEPT ![t] = "unset"]
    /\ conn' = [conn EXCEPT ![t] = "None"]
    /\ cur' = [cur EXCEPT ![t] = "none"]
    /\ exc' = [exc EXCEPT ![t] = "none"]
    /\ firstExc' = [firstExc EXCEPT ![t] = "none"]
    /\ closeCalls' = [closeCalls EXCEPT ![t] = 0]
    /\ trace' = [trace EXCEPT ![t] = << >>]
    /\ outcome' = [outcome EXCEPT ![t] = "none"]
    /\ tasks' = tasks + 1

\* A caller (library use of the module) begins a call.
StartTask(t) ==
    /\ mainStage = "off"
    /\ pc[t] \in {"idle", "done"}
    /\ tasks < MaxTasks
    /\ \E k \in {"get", "with", "query"} : Enter(t, k)
    /\ UNCHANGED <<ticket, jvmStarted, startCalls, startFails, mainVars>>

\* The environment: kinit creates the ticket cache, expiry/kdestroy removes it.
ToggleTicket ==
    /\ exitStatus = "running"
    /\ ticket' = ~ticket
    /\ UNCHANGED <<jvmStarted, startCalls, startFails, tasks, mainVars, locals>>

\* Raising e out of get_connection(): to the caller of a bare call, or into
\* the try block of cockroach_connection().
RaiseFromGet(t, e) ==
    /\ exc' = [exc EXCEPT ![t] = e]
    /\ firstExc' = [firstExc EXCEPT ![t] = e]
    /\ IF task[t] = "get"
       THEN /\ pc' = [pc EXCEPT ![t] = "done"]
            /\ outcome' = [outcome EXCEPT ![t] = "raised"]
       ELSE /\ pc' = [pc EXCEPT ![t] = "cm_except"]
            /\ outcome' = outcome

\* ------------------------------------------------- ensure_kerberos_ticket
EnsureKerberosTicket(t) ==
    /\ pc[t] = "precheck"
    /\ LET ok == TicketCheckResult(ticket) IN
       /\ ticketOk' = [ticketOk EXCEPT ![t] = BoolStr(ok)]
       /\ trace' = [trace EXCEPT ![t] =
             IF ok THEN @ ELSE @ \o <<"warning:no_ticket_cache", "warning:run_kinit">>]
    /\ pc' = [pc EXCEPT ![t] = "check_ticket"]
    /\ UNCHANGED <<globals, mainVars, task, conn, cur, exc, firstExc, closeCalls, outcome>>

\* ---------------------------------------------------------- get_connection
GcCheckTicket(t) ==
    /\ pc[t] = "check_ticket"
    /\ IF RaisesOnMissingTicket(ticketOk[t] = "true")
       THEN RaiseFromGet(t, "NoTicket")
       ELSE /\ pc' = [pc EXCEPT ![t] = "is_started"]
            /\ UNCHANGED <<exc, firstExc, outcome>>
    /\ UNCHANGED <<globals, mainVars, task, ticketOk, conn, cur, closeCalls, trace>>

GcIsStarted(t) ==
    /\ pc[t] = "is_started"
    /\ IF NeedsStart(jvmStarted)
       THEN /\ pc' = [pc EXCEPT ![t] = "start_jvm"]
            /\ trace' = [trace EXCEPT ![t] = Append(@, "info:starting_jvm")]
       ELSE /\ pc' = [pc EXCEPT ![t] = "connect"]
            /\ trace' = trace
    /\ UNCHANGED <<globals, mainVars, task, ticketOk, conn, cur, exc, firstExc,
                   closeCalls, outcome>>

\* jpype.startJVM(...): raises OSError when a JVM is already running; otherwise
\* it brings the JVM up, or fails and leaves isJVMStarted() false.
GcStartJVM(t) ==
    /\ pc[t] = "start_jvm"
    /\ startCalls' = startCalls + 1
    /\ trace' = [trace EXCEPT ![t] = Append(@, "call:startJVM")]
    /\ IF jvmStarted
       THEN /\ RaiseFromGet(t, "StartError")
            /\ UNCHANGED <<jvmStarted, startFails>>
       ELSE \E ok \in BOOLEAN :
              IF ok
              THEN /\ jvmStarted' = TRUE
                   /\ pc' = [pc EXCEPT ![t] = "connect"]
                   /\ UNCHANGED <<startFails, exc, firstExc, outcome>>
              ELSE /\ startFails' = startFails + 1
                   /\ RaiseFromGet(t, "StartError")
                   /\ UNCHANGED jvmStarted
    /\ UNCHANGED <<ticket, tasks, mainVars, task, ticketOk, conn, cur, closeCalls>>

\* logger.info("Connecting ...") and jaydebeapi.connect(...)
GcConnect(t) ==
    /\ pc[t] = "connect"
    /\ trace' = [trace EXCEPT ![t] = @ \o <<"info:connecting", "call:connect">>]
    /\ \E ok \in BOOLEAN :
         IF ok
         THEN /\ conn' = [conn EXCEPT ![t] = "handle"]
              /\ IF task[t] = "get"
                 THEN /\ pc' = [pc EXCEPT ![t] = "done"]
                      /\ outcome' = [outcome EXCEPT ![t] = "returned"]
                 ELSE /\ pc' = [pc EXCEPT ![t] = "cm_established"]
                      /\ outcome' = outcome
              /\ UNCHANGED <<exc, firstExc>>
         ELSE /\ RaiseFromGet(t, "ConnectError")
              /\ conn' = conn
    /\ UNCHANGED <<globals, mainVars, task, ticketOk, cur, closeCalls>>

GetConnection(t) ==
    \/ EnsureKerberosTicket(t)
    \/ GcCheckTicket(t)
    \/ GcIsStarted(t)
    \/ GcStartJVM(t)
    \/ GcConnect(t)

\* ----------------------------------------------------- cockroach_connection
\* logger.info("Connection established successfully"); yield conn
CmYield(t) ==
    /\ pc[t] = "cm_established"
    /\ trace' = [trace EXCEPT ![t] = @ \o <<"info:established", "yield">>]
    /\ pc' = [pc EXCEPT ![t] = IF task[t] = "with" THEN "body" ELSE "body_cursor"]
    /\ UNCHANGED <<globals, mainVars, task, ticketOk, conn, cur, exc, firstExc,
                   closeCalls, outcome>>

\* An exception reaches the try block, from get_connection() or thrown in at
\* the yield: `except Exception as e: logger.error(...); raise`.
CmExcept(t) ==
    /\ pc[t] = "cm_except"
    /\ trace' = [trace EXCEPT ![t] =
          IF Catches(exc[t]) THEN Append(@, "error:connection_failed") ELSE @]
    /\ pc' = [pc EXCEPT ![t] = "cm_finally"]
    /\ UNCHANGED <<globals, mainVars, task, ticketOk, conn, cur, exc, firstExc,
                   closeCalls, outcome>>

\* finally: if conn: conn.close(); logger.info("Connection closed").
\* conn.close() may itself raise; that exception then replaces the one in
\* flight and the closing log line is skipped.
CmFinally(t) ==
    /\ pc[t] = "cm_finally"
    /\ IF ShouldClose(conn[t])
       THEN /\ closeCalls' = [closeCalls EXCEPT ![t] = @ + 1]
            /\ \E ok \in BOOLEAN :
                 IF ok
                 THEN /\ trace' = [trace EXCEPT ![t] = @ \o <<"call:close", "info:closed">>]
                      /\ UNCHANGED <<exc, firstExc>>
                 ELSE /\ trace' = [trace EXCEPT ![t] = Append(@, "call:close")]
                      /\ exc' = [exc EXCEPT ![t] = "CloseError"]
                      /\ firstExc' = [firstExc EXCEPT ![t] =
                            IF @ = "none" THEN "CloseError" ELSE @]
       ELSE UNCHANGED <<closeCalls, trace, exc, firstExc>>
    /\ pc' = [pc EXCEPT ![t] = "cm_leave"]
    /\ UNCHANGED <<globals, mainVars, task, ticketOk, conn, cur, outcome>>

\* The scope is left: the with statement completes, or the exception in flight
\* reaches the caller of the scope.
CmLeave(t) ==
    /\ pc[t] = "cm_leave"
    /\ outcome' = [outcome EXCEPT ![t] = IF exc[t] = "none" THEN "returned" ELSE "raised"]
    /\ pc' = [pc EXCEPT ![t] = "done"]
    /\ UNCHANGED <<globals, mainVars, task, ticketOk, conn, cur, exc, firstExc,
                   closeCalls, trace>>

CockroachConnection(t) ==
    \/ CmYield(t)
    \/ CmExcept(t)
    \/ CmFinally(t)
    \/ CmLeave(t)

\* The body of a caller's `with cockroach_connection() as conn:` block: it
\* finishes, or raises an Exception, or raises a BaseException.
WithBody(t) ==
    /\ pc[t] = "body"
    /\ trace' = [trace EXCEPT ![t] = Append(@, "body")]
    /\ \E r \in {"none", "BodyError", "BodyInterrupt"} :
         /\ exc' = [exc EXCEPT ![t] = r]
         /\ firstExc' = [firstExc EXCEPT ![t] = r]
         /\ pc' = [pc EXCEPT ![t] =
               IF r = "none" THEN "cm_finally" ELSE "cm_except"]
    /\ UNCHANGED <<globals, mainVars, task, ticketOk, conn, cur, closeCalls, outcome>>

\* ------------------------------------------------ run_reconciliation_query
\* (and the with-body of the __main__ block, which has the same shape)
\* An exception raised by a statement of the body is thrown into the context
\* manager at its yield.
BodyRaise(t, e) ==
    /\ exc' = [exc EXCEPT ![t] = e]
    /\ firstExc' = [firstExc EXCEPT ![t] = e]
    /\ pc' = [pc EXCEPT ![t] = "cm_except"]

\* cur = conn.cursor()
BodyCursor(t) ==
    /\ pc[t] = "body_cursor"
    /\ trace' = [trace EXCEPT ![t] = @ \o <<"body", "call:cursor">>]
    /\ \E ok \in BOOLEAN :
         IF ok
         THEN /\ cur' = [cur EXCEPT ![t] = "open"]
              /\ pc' = [pc EXCEPT ![t] = "body_execute"]
              /\ UNCHANGED <<exc, firstExc>>
         ELSE /\ BodyRaise(t, "DriverError")
              /\ cur' = cur
    /\ UNCHANGED <<globals, mainVars, task, ticketOk, conn, closeCalls, outcome>>

\* cur.execute(query, params) / cur.execute(query)
BodyExecute(t) ==
    /\ pc[t] = "body_execute"
    /\ trace' = [trace EXCEPT ![t] = Append(@, "call:execute")]
    /\ \E ok \in BOOLEAN :
         IF ok
         THEN /\ pc' = [pc EXCEPT ![t] = "body_fetch"]
              /\ UNCHANGED <<exc, firstExc>>
         ELSE BodyRaise(t, "DriverError")
    /\ UNCHANGED <<globals, mainVars, task, ticketOk, conn, cur, closeCalls, outcome>>

\* results = cur.fetchall()   (__main__: user, version = cur.fetchone())
BodyFetch(t) ==
    /\ pc[t] = "body_fetch"
    /\ trace' = [trace EXCEPT ![t] = Append(@, "call:fetch")]
    /\ \E ok \in BOOLEAN :
         IF ok
         THEN /\ pc' = [pc EXCEPT ![t] =
                    IF task[t] = "query" THEN "body_description" ELSE "body_print"]
              /\ UNCHANGED <<exc, firstExc>>
         ELSE BodyRaise(t, "DriverError")
    /\ UNCHANGED <<globals, mainVars, task, ticketOk, conn, cur, closeCalls, outcome>>

\* columns = [desc[0] for desc in cur.description]
BodyDescription(t) ==
    /\ pc[t] = "body_description"
    /\ trace' = [trace EXCEPT ![t] = Append(@, "read:description")]
    /\ \E ok \in BOOLEAN :
         IF ok
         THEN /\ pc' = [pc EXCEPT ![t] = "body_cur_close"]
              /\ UNCHANGED <<exc, firstExc>>
         ELSE BodyRaise(t, "DriverError")
    /\ UNCHANGED <<globals, mainVars, task, ticketOk, conn, cur, closeCalls, outcome>>

\* __main__: print("Connected as ..."); print("Database version ...")
BodyPrint(t) ==
    /\ pc[t] = "body_print"
    /\ stdout' = stdout \o <<"connected_as", "database_version">>
    /\ pc' = [pc EXCEPT ![t] = "body_cur_close"]
    /\ UNCHANGED <<globals, mainStage, exitStatus, task, ticketOk, conn, cur, exc,
                   firstExc, closeCalls, trace, outcome>>

\* cur.close(), then the body ends (`return columns, results` in
\* run_reconciliation_query) and the scope is left normally.
BodyCurClose(t) ==
    /\ pc[t] = "body_cur_close"
    /\ trace' = [trace EXCEPT ![t] = Append(@, "call:cur_close")]
    /\ \E ok \in BOOLEAN :
         IF ok
         THEN /\ cur' = [cur EXCEPT ![t] = "closed"]
              /\ pc' = [pc EXCEPT ![t] = "cm_finally"]
              /\ UNCHANGED <<exc, firstExc>>
         ELSE /\ cur' = [cur EXCEPT ![t] = "close_failed"]
              /\ BodyRaise(t, "DriverError")
    /\ UNCHANGED <<globals, mainVars, task, ticketOk, conn, closeCalls, outcome>>

RunReconciliationQuery(t) ==
    \/ BodyCursor(t)
    \/ BodyExecute(t)
    \/ BodyFetch(t)
    \/ BodyDescription(t)
    \/ BodyCurClose(t)

\* ---------------------------------------------------------------- __main__
\* `except Exception as e:` of the __main__ block decides the exit status: a
\* caught exception is printed and the script runs off its end.
MainExitStatus(caught) == IF caught THEN "0" ELSE "1"

\* try: with cockroach_connection() as conn: ...
MainBegin(t) ==
    /\ mainStage = "start"
    /\ pc[t] = "idle"
    /\ Enter(t, "mainwith")
    /\ mainStage' = "with"
    /\ UNCHANGED <<ticket, jvmStarted, startCalls, startFails, stdout, exitStatus>>

\* After the with block: on to run_reconciliation_query(...), or to the handler.
MainAfterWith(t) ==
    /\ mainStage = "with"
    /\ pc[t] = "done"
    /\ IF outcome[t] = "returned"
       THEN /\ Enter(t, "query")
            /\ mainStage' = "query"
       ELSE /\ mainStage' = "handler"
            /\ UNCHANGED <<tasks, locals>>
    /\ UNCHANGED <<ticket, jvmStarted, startCalls, startFails, stdout, exitStatus>>

\* After run_reconciliation_query: print the tables and run off the end of the
\* script, or go to the handler.
MainAfterQuery(t) ==
    /\ mainStage = "query"
    /\ pc[t] = "done"
    /\ IF outcome[t] = "returned"
       THEN /\ stdout' = stdout \o <<"tables_header", "table_rows">>
            /\ mainStage' = "exited"
            /\ exitStatus' = "0"
       ELSE /\ mainStage' = "handler"
            /\ UNCHANGED <<stdout, exitStatus>>
    /\ UNCHANGED <<globals, locals>>

\* except Exception as e: print(f"Error: {e}"); traceback.print_exc()
\* An exception the clause does not match ends the interpreter with its own
\* traceback and status 1.
MainHandler(t) ==
    /\ mainStage = "handler"
    /\ LET caught == IsException(exc[t]) IN
       /\ stdout' = stdout \o (IF caught THEN <<"error", "traceback">>
                                         ELSE <<"uncaught_traceback">>)
       /\ exitStatus' = MainExitStatus(caught)
    /\ mainStage' = "exited"
    /\ UNCHANGED <<globals, locals>>

Main(t) ==
    \/ MainBegin(t)
    \/ MainAfterWith(t)
    \/ MainAfterQuery(t)
    \/ MainHandler(t)
    \/ BodyPrint(t)

\* ----------------------------------------------------------- specifications
\* The module used as a library by a single-threaded caller.
Next ==
    \/ ToggleTicket
    \/ \E t \in {MainThread} :
         \/ StartTask(t)
         \/ GetConnection(t)
         \/ CockroachConnection(t)
         \/ WithBody(t)
         \/ RunReconciliationQuery(t)

Spec == Init /\ [][Next]_vars

\* The module used by several threads at once.
NextConc ==
    \/ ToggleTicket
    \/ \E t \in Threads :
         \/ StartTask(t)
         \/ GetConnection(t)
         \/ CockroachConnection(t)
         \/ WithBody(t)
         \/ RunReconciliationQuery(t)

SpecConc == Init /\ [][NextConc]_vars

\* The script run as the main program.
InitMain ==
    /\ InitGlobals
    /\ InitLocals
    /\ mainStage = "start"
    /\ pc = [t \in Threads |-> "idle"]

NextMain ==
    \/ ToggleTicket
    \/ \E t \in {MainThread} :
         \/ Main(t)
         \/ GetConnection(t)
         \/ CockroachConnection(t)
         \/ RunReconciliationQuery(t)

SpecMain == InitMain /\ [][NextMain]_vars

\* ------------------------------------------------------------- properties
InScope(t) == task[t] \in {"with", "query", "mainwith"}
Left(t) == InScope(t) /\ pc[t] = "done"
GetErrors == {"NoTicket", "StartError", "ConnectError"}
BodyErrors == {"BodyError", "BodyInterrupt", "DriverError"}

\* C1: whenever a use of cockroach_connection() in which get_connection()
\* returned a handle has been left, conn.close() has been invoked exactly once
\* on that handle, whether the body finished or raised; at no point of any
\* scope has it been invoked twice.
C1_ExactlyOneClose ==
    \A t \in Threads :
      /\ closeCalls[t] <= 1
      /\ (Left(t) /\ conn[t] = "handle") =>
            /\ closeCalls[t] = 1
            /\ Count(trace[t], "call:close") = 1

C1_Witness ==
    \E t \in Threads :
      /\ Left(t) /\ conn[t] = "handle"
      /\ firstExc[t] = "BodyError"
      /\ closeCalls[t] = 1

\* C2: in a single-threaded process no step invokes jpype.startJVM while the
\* JVM-started flag is true, and as long as no start has failed startJVM has
\* been invoked at most once in total.
C2_StartAtMostOnce ==
    [][/\ jvmStarted => startCalls' = startCalls
       /\ startFails' = 0 => startCalls' <= 1]_vars

C2_Witness ==
    /\ jvmStarted /\ startCalls = 1 /\ startFails = 0
    /\ tasks >= 2
    /\ pc[MainThread] = "done" /\ conn[MainThread] = "handle"
    /\ ~Has(trace[MainThread], "call:startJVM")

\* C3 (as claimed): with several threads calling get_connection(), and no start
\* failing, jpype.startJVM is invoked at most once under every interleaving.
C3_OneStartUnderConcurrency ==
    startFails = 0 => startCalls <= 1

\* C4 (as claimed): a call whose precheck returned false still goes on to the
\* driver connect attempt, and the error its caller sees is the connect's.
C4_PrecheckAdvisory ==
    \A t \in Threads :
      (pc[t] = "done" /\ ticketOk[t] = "false") =>
          /\ Has(trace[t], "call:connect")
          /\ firstExc[t] # "NoTicket"

\* C4 (amended): when ensure_kerberos_ticket() returned false, get_connection()
\* raises "No valid Kerberos ticket found" at once: neither jpype.startJVM nor
\* the driver connect is invoked, no handle exists, and the caller sees that
\* error.
C4_PrecheckFatal ==
    \A t \in Threads :
      (ticketOk[t] = "false" /\ pc[t] # "check_ticket") =>
          /\ firstExc[t] = "NoTicket"
          /\ exc[t] = "NoTicket"
          /\ ~Has(trace[t], "call:startJVM")
          /\ ~Has(trace[t], "call:connect")
          /\ conn[t] = "None"
          /\ pc[t] = "done" => outcome[t] = "raised"

C4_Witness ==
    \E t \in Threads :
      /\ Left(t) /\ ticketOk[t] = "false"
      /\ outcome[t] = "raised" /\ exc[t] = "NoTicket"

\* C5 (as claimed): once a jpype.startJVM invocation has failed, no later
\* get_connection() call invokes startJVM again.
C5_FailedStartNotRetried ==
    [][startFails >= 1 => startCalls' = startCalls]_vars

\* C6 (as claimed): when the script runs as the main program and a stage
\* failed, the handler has printed the diagnostic and the stack trace and the
\* process ends with a non-zero exit status.
C6_FailureExitsNonZero ==
    (mainStage = "exited" /\ firstExc[MainThread] # "none") =>
        /\ Has(stdout, "error")
        /\ Has(stdout, "traceback")
        /\ exitStatus # "0"

\* C7: when get_connection() failed inside cockroach_connection(), no handle
\* exists, close is never called, the body is never entered, and the caller
\* of the scope sees the very error get_connection() raised.
C7_FailedAcquisition ==
    \A t \in Threads :
      (InScope(t) /\ firstExc[t] \in GetErrors) =>
          /\ conn[t] = "None"
          /\ closeCalls[t] = 0
          /\ ~Has(trace[t], "call:close")
          /\ ~Has(trace[t], "yield")
          /\ ~Has(trace[t], "body")
          /\ exc[t] = firstExc[t]
          /\ pc[t] = "done" => outcome[t] = "raised"

C7_Witness ==
    \E t \in Threads :
      /\ Left(t) /\ firstExc[t] = "ConnectError"
      /\ outcome[t] = "raised"

\* C8 (as claimed): whenever the body raised, then by the time the caller
\* observes it the failure was logged and after that the connection closed,
\* the caller observes that same exception, and connect and the body ran once.
C8_LogCloseRaise ==
    \A t \in Threads :
      (Left(t) /\ firstExc[t] \in BodyErrors) =>
          /\ Before(trace[t], "error:connection_failed", "call:close")
          /\ outcome[t] = "raised"
          /\ exc[t] = firstExc[t]
          /\ Count(trace[t], "call:connect") = 1
          /\ Count(trace[t], "body") = 1

\* C8 (amended): the caller observes nothing before the scope is left.  When
\* the body raised, the connection was closed, once, before the caller
\* observes an exception; connect and the body ran once.  A body exception
\* derived from Exception was logged, once, before the close; one that is not
\* (KeyboardInterrupt, SystemExit) was not logged.  The caller observes the
\* body's exception when close() returned, and close()'s own error in its
\* place when close() raised.
C8_CloseThenRaise ==
    \A t \in Threads :
      /\ (InScope(t) /\ pc[t] # "done") => outcome[t] = "none"
      /\ (Left(t) /\ firstExc[t] \in BodyErrors) =>
          /\ outcome[t] = "raised"
          /\ Count(trace[t], "call:close") = 1
          /\ Count(trace[t], "call:connect") = 1
          /\ Count(trace[t], "body") = 1
          /\ IF IsException(firstExc[t])
             THEN /\ Count(trace[t], "error:connection_failed") = 1
                  /\ Before(trace[t], "error:connection_failed", "call:close")
             ELSE ~Has(trace[t], "error:connection_failed")
          /\ IF Has(trace[t], "info:closed")
             THEN exc[t] = firstExc[t]
             ELSE exc[t] = "CloseError"

C8_Witness ==
    \E t \in Threads :
      /\ Left(t) /\ task[t] = "with"
      /\ firstExc[t] = "BodyError" /\ exc[t] = "BodyError"
      /\ outcome[t] = "raised"
      /\ Before(trace[t], "error:connection_failed", "call:close")

\* C9: every run of ensure_kerberos_ticket() returns to get_connection()
\* without raising: false after exactly the two warning lines when the ticket
\* cache is absent, true with no log line when it is present; the JVM flag,
\* the start counters and the connection are left as they were.
C9_PrecheckOnlyReports ==
    [][\A t \in Threads :
         (pc[t] = "precheck" /\ pc'[t] # "precheck") =>
            /\ pc'[t] = "check_ticket"
            /\ ticketOk'[t] = (IF ticket THEN "true" ELSE "false")
            /\ trace'[t] = trace[t] \o
                 (IF ticket THEN << >>
                  ELSE <<"warning:no_ticket_cache", "warning:run_kinit">>)
            /\ exc'[t] = "none" /\ outcome'[t] = "none"
            /\ conn'[t] = conn[t]
            /\ UNCHANGED <<ticket, jvmStarted, startCalls, startFails>>]_vars

C9_Witness ==
    \E t \in Threads :
      /\ pc[t] = "check_ticket" /\ ticketOk[t] = "false"
      /\ trace[t] = <<"warning:no_ticket_cache", "warning:run_kinit">>
      /\ exc[t] = "none"

\* C10 (as claimed): whenever the connection of a scope has been closed, the
\* cursor created in that scope is no longer open.
C10_CursorClosedBeforeConnection ==
    \A t \in Threads :
      closeCalls[t] >= 1 => cur[t] # "open"
====
